---- MODULE Spec2Model ----
(***************************************************************************)
(* A model of the expense tracker (src/src/expense_tracker.py,             *)
(* src/src/models.py, src/src/visualization.py, src/src/main.py).          *)
(*                                                                         *)
(* Amounts are exact integers (currency units); a datetime is the tuple    *)
(* <<year, month, day, time-of-day>>; a date string "YYYY-MM-DD" is the    *)
(* tuple <<year, month, day>>; a "YYYY-MM" key is <<year, month>>.  A      *)
(* Python dict is a sequence of <<key, value>> pairs in iteration order.   *)
(* An amount cell of the sheet is text; a mean or a percentage is the      *)
(* exact fraction [num, den]; an ISO timestamp string is the 4-tuple       *)
(* <<year, month, day, time-of-day>>.                                      *)
(***************************************************************************)
EXTENDS Integers, Sequences, FiniteSets, TLC

VARIABLES
    sheet,          \* rows of the Google Sheet (the external source)
    expenses,       \* ExpenseTracker.expenses
    phase,          \* "new" before the constructor's load_expenses(), then "ready"
    now,            \* the wall clock: an index into Clock
    call,           \* the last get_spending_insights call: its arguments and
                    \* the instant datetime.now() gave it
    filtered,       \* filtered_expenses of that call
    insights,       \* what that call returned (or that it raised)
    month_insights, \* what ExpenseVisualizer.filter_insights_by_month returned
    reports,        \* what ExpenseVisualizer.generate_all_monthly_reports returned
    reachable,      \* whether the Google Sheet can be read
    cache,          \* the cache file data/expenses.json
    restored        \* the records last read back from the cache file

vars == <<sheet, expenses, phase, now, call, filtered, insights, month_insights,
          reports, reachable, cache, restored>>

\* None as an argument or a value that is a date, a list or a tuple otherwise
None == <<>>

\* no call has returned yet
NoResult == [status |-> "none"]

\* get_spending_insights has not been called yet
NoCall == [made |-> FALSE]

----------------------------------------------------------------------------
(* Bounds of the model. *)

MaxLen == 3         \* rows of a sheet when amounts and dates differ
MaxTopLen == 6      \* rows of a sheet when only the amounts differ
MaxGroupLen == 2    \* rows of a sheet when amounts, payers and categories differ
MaxLoadLen == 2     \* rows of a sheet when some rows cannot be loaded
MaxBucketLen == 2   \* rows of a sheet when the amounts span the buckets

\* The instants at which the program may read the clock, with their years.
Clock == <<2024, 2025>>

\* amount cells of the sheet (a CSV cell is text)
Amounts == {"50", "100"}
People == {"Kylie", "Shared"}
Members == {"RENT", "DINING"}
Dates == {<<2024, 1, 5, 0>>, <<2024, 2, 29, 0>>, <<2024, 3, 10, 0>>}
\* start_date / end_date arguments
Starts == {None, <<2024, 2, 29, 0>>}
Ends == {None, <<2024, 2, 29, 0>>}

----------------------------------------------------------------------------
(* models.py *)

\* class Category(Enum): the value of each member
CategoryValue(member) ==
    CASE member = "GROCERIES" -> "Groceries"
      [] member = "UTILITIES" -> "Utilities"
      [] member = "RENT" -> "Rent"
      [] member = "ENTERTAINMENT" -> "Entertainment"
      [] member = "DINING" -> "Dining"
      [] member = "TRANSPORT" -> "Transport"
      [] member = "SHARED" -> "Shared"
      [] member = "SHOPPING" -> "Shopping"
      [] member = "OTHER" -> "Other"

\* datetime.strftime("%Y-%m-%d"): the time of day is dropped
StrfYmd(dt) == <<dt[1], dt[2], dt[3]>>

\* Expense.to_dict
ToDict(e) ==
    [description |-> e.description,
     amount |-> e.amount,
     paid_by |-> e.paid_by,
     category |-> CategoryValue(e.category),
     date |-> StrfYmd(e.date)]

----------------------------------------------------------------------------
(* Calendar arithmetic, as datetime does it. *)

IsLeap(y) == (y % 4 = 0) /\ ((y % 100 # 0) \/ (y % 400 = 0))

DaysInMonth(y, m) ==
    IF m = 2 THEN (IF IsLeap(y) THEN 29 ELSE 28)
    ELSE IF m \in {4, 6, 9, 11} THEN 30 ELSE 31

RECURSIVE DaysBeforeMonth(_, _)
DaysBeforeMonth(y, m) ==
    IF m = 1 THEN 0 ELSE DaysBeforeMonth(y, m - 1) + DaysInMonth(y, m - 1)

DaysBeforeYear(y) ==
    (y - 1) * 365 + ((y - 1) \div 4) - ((y - 1) \div 100) + ((y - 1) \div 400)

Ordinal(y, m, d) == DaysBeforeYear(y) + DaysBeforeMonth(y, m) + d

\* day names, Monday first
DayNames == <<"Monday", "Tuesday", "Wednesday", "Thursday", "Friday",
              "Saturday", "Sunday">>

\* dt.day_name() / strftime('%A')
DayName(dt) == DayNames[((Ordinal(dt[1], dt[2], dt[3]) + 6) % 7) + 1]

\* datetime comparison a <= b
DtLE(a, b) ==
    \/ a[1] < b[1]
    \/ a[1] = b[1] /\ a[2] < b[2]
    \/ a[1] = b[1] /\ a[2] = b[2] /\ a[3] < b[3]
    \/ a[1] = b[1] /\ a[2] = b[2] /\ a[3] = b[3] /\ a[4] <= b[4]

\* datetime.replace(year=y) raises ValueError when the day does not exist in y
ReplaceYearRaises(dt, y) == dt[3] > DaysInMonth(y, dt[2])

ReplaceYear(dt, y) == <<y, dt[2], dt[3], dt[4]>>

----------------------------------------------------------------------------
(* Sequence helpers. *)

RECURSIVE SumAmounts(_)
SumAmounts(s) == IF s = <<>> THEN 0 ELSE Head(s).amount + SumAmounts(Tail(s))

Range(s) == {s[i] : i \in 1..Len(s)}

\* the distinct values of a sequence in the order of their first occurrence
\* (the key order of a dict filled by d[k] = d.get(k, 0) + ...)
RECURSIVE FirstSeen(_)
FirstSeen(s) ==
    IF s = <<>> THEN <<>>
    ELSE LET d == FirstSeen(SubSeq(s, 1, Len(s) - 1))
         IN  IF s[Len(s)] \in Range(d) THEN d ELSE Append(d, s[Len(s)])

----------------------------------------------------------------------------
(* ExpenseTracker._filter_expenses *)

\* (a variant with an exclusive lower bound)
FilterAfter(s, start_date) ==
    SelectSeq(s, LAMBDA e : DtLE(start_date, e.date) /\ e.date # start_date)

FilterFrom(s, start_date) == SelectSeq(s, LAMBDA e : DtLE(start_date, e.date))

FilterUntil(s, end_date) == SelectSeq(s, LAMBDA e : DtLE(e.date, end_date))

FilterExpenses(s, start_date, end_date) ==
    LET a == IF start_date # None THEN FilterFrom(s, start_date) ELSE s
    IN  IF end_date # None THEN FilterUntil(a, end_date) ELSE a

----------------------------------------------------------------------------
(* The orders in which pandas sorts the grouping keys (groupby sorts its    *)
(* keys, Series.mode returns the modes sorted): strings, lexicographically. *)

SortedCategories ==
    <<"Dining", "Entertainment", "Groceries", "Other", "Rent", "Shared",
      "Shopping", "Transport", "Utilities">>

SortedPeople == <<"Jeff", "Kylie", "Shared">>

SortedDayNames ==
    <<"Friday", "Monday", "Saturday", "Sunday", "Thursday", "Tuesday",
      "Wednesday">>

\* number of rows whose key (the entry of the key column) is k
CountKey(column, k) == Cardinality({i \in 1..Len(column) : column[i] = k})

\* sum of the amounts of the rows whose key is k
SumKey(rows, column, k) ==
    LET ix == SelectSeq([i \in 1..Len(rows) |-> i], LAMBDA i : column[i] = k)
    IN  SumAmounts([j \in 1..Len(ix) |-> rows[ix[j]]])

\* the keys present in the key column, in sorted order
SortedKeys(column, order) ==
    SelectSeq(order, LAMBDA k : \E i \in 1..Len(column) : column[i] = k)

\* df.groupby(column)['amount'].sum().to_dict()
GroupBySum(rows, column, order) ==
    LET ks == SortedKeys(column, order)
    IN  [i \in 1..Len(ks) |-> <<ks[i], SumKey(rows, column, ks[i])>>]

\* max(d.items(), key=lambda x: x[1]): the first item holding the maximum
MaxItem(items) ==
    LET best == CHOOSE i \in 1..Len(items) :
                    /\ \A j \in 1..Len(items) : items[j][2] <= items[i][2]
                    /\ \A j \in 1..(i - 1) : items[j][2] < items[i][2]
    IN  items[best]

\* series.mode().iloc[0]: the smallest of the most frequent values
ModeFirst(column, order) ==
    LET ks == SortedKeys(column, order)
        top == SelectSeq(ks, LAMBDA k :
                   \A j \in 1..Len(ks) :
                       CountKey(column, ks[j]) <= CountKey(column, k))
    IN  top[1]

\* sum of the values of a dict
RECURSIVE SumValues(_)
SumValues(items) ==
    IF items = <<>> THEN 0 ELSE Head(items)[2] + SumValues(Tail(items))

\* the keys of a dict, as a set
Keys(items) == {items[i][1] : i \in 1..Len(items)}

\* d[k] for a key of the dict (keys are unique)
Lookup(items, k) ==
    LET i == CHOOSE j \in 1..Len(items) : items[j][1] = k IN items[i][2]

----------------------------------------------------------------------------
(* ExpenseTracker.get_spending_insights: the data frame and its aggregates. *)

\* one row of the data frame: to_dict() with the date moved to current_year
FrameRow(e, current_year) ==
    [description |-> ToDict(e).description,
     amount |-> ToDict(e).amount,
     paid_by |-> ToDict(e).paid_by,
     category |-> ToDict(e).category,
     date |-> ReplaceYear(e.date, current_year)]

\* pd.DataFrame([... for exp in filtered_expenses])
Frame(f, current_year) == [i \in 1..Len(f) |-> FrameRow(f[i], current_year)]

\* building the frame raises when some date cannot be moved to current_year
FrameRaises(f, current_year) ==
    \E i \in 1..Len(f) : ReplaceYearRaises(f[i].date, current_year)

\* the columns df['paid_by'], df['category'] and df['date'].dt.day_name()
PaidBy(df) == [i \in 1..Len(df) |-> df[i].paid_by]
CategoryOf(df) == [i \in 1..Len(df) |-> df[i].category]
DayOf(df) == [i \in 1..Len(df) |-> DayName(df[i].date)]

\* df['amount'].sum()
TotalSpending(df) == SumAmounts(df)

\* (a variant summing for the two named people only)
SpendingByPersonNamedOnly(df) == GroupBySum(df, PaidBy(df), <<"Jeff", "Kylie">>)

\* df.groupby('paid_by')['amount'].sum().to_dict()
SpendingByPerson(df) == GroupBySum(df, PaidBy(df), SortedPeople)

\* (a variant keeping the categories in the order the rows first show them,
\* as groupby(sort=False) does)
SpendingByCategoryUnsorted(df) ==
    LET ks == FirstSeen([i \in 1..Len(df) |-> df[i].category])
    IN  [i \in 1..Len(ks) |-> <<ks[i], SumKey(df, CategoryOf(df), ks[i])>>]

\* df.groupby('category')['amount'].sum().to_dict()
SpendingByCategory(df) == GroupBySum(df, CategoryOf(df), SortedCategories)

\* df.groupby(df['date'].dt.day_name())['amount'].sum().to_dict()
SpendingByDayOfWeek(df) == GroupBySum(df, DayOf(df), SortedDayNames)

\* months counted from year 0
MonthIndex(dt) == dt[1] * 12 + dt[2] - 1

\* the last instant's date of the month with the given index (the bin label)
MonthEnd(ix) ==
    LET y == ix \div 12
        m == (ix % 12) + 1
    IN  <<y, m, DaysInMonth(y, m), 0>>

\* df.set_index('date').resample('ME')['amount'].sum().to_dict(): one bin per
\* calendar month from the earliest to the latest row, empty bins summing to 0
MonthlyTrends(df) ==
    LET ixs == {MonthIndex(df[i].date) : i \in 1..Len(df)}
        lo == CHOOSE a \in ixs : \A b \in ixs : a <= b
        hi == CHOOSE a \in ixs : \A b \in ixs : b <= a
    IN  [k \in 1..(hi - lo + 1) |->
            <<MonthEnd(lo + k - 1),
              SumAmounts(SelectSeq(df, LAMBDA r : MonthIndex(r.date) = lo + k - 1))>>]

\* Timestamp.strftime('%Y-%m')
StrfYm(dt) == <<dt[1], dt[2]>>

\* {k.strftime('%Y-%m'): v for k, v in monthly_trends.items()}
FormatMonthlyTrends(trends) ==
    [k \in 1..Len(trends) |-> <<StrfYm(trends[k][1]), trends[k][2]>>]

\* the sum of a sequence of numbers
RECURSIVE SumSeq(_)
SumSeq(values) == IF values = <<>> THEN 0 ELSE Head(values) + SumSeq(Tail(values))

\* Series.mean() of a non-empty series, as the exact fraction num / den
Mean(values) == [num |-> SumSeq(values), den |-> Len(values)]

\* df.groupby(df['date'].dt.strftime('%Y-%m'))['amount'].sum(): one sum per
\* month that has a row, in the order of the months
MonthlySums(df) ==
    LET ixs == {MonthIndex(df[i].date) : i \in 1..Len(df)}
        ks == [k \in 1..Cardinality(ixs) |->
                  CHOOSE a \in ixs : Cardinality({b \in ixs : b < a}) = k - 1]
    IN  [k \in 1..Len(ks) |->
            SumAmounts(SelectSeq(df, LAMBDA r : MonthIndex(r.date) = ks[k]))]

\* "average_monthly_spend"
AverageMonthlySpend(df) == Mean(MonthlySums(df))

\* (a variant putting the row before the rows of equal amount)
InsertDescBeforeEqual(s, r) ==
    LET before == SelectSeq(s, LAMBDA x : x.amount > r.amount)
        after == SelectSeq(s, LAMBDA x : x.amount <= r.amount)
    IN  before \o <<r>> \o after

\* a row put after every row of s whose amount is at least its own
InsertDesc(s, r) ==
    LET before == SelectSeq(s, LAMBDA x : x.amount >= r.amount)
        after == SelectSeq(s, LAMBDA x : x.amount < r.amount)
    IN  before \o <<r>> \o after

\* the rows by amount descending, rows of equal amount in their original
\* order (keep='first': the first occurrences are given priority)
RECURSIVE SortDesc(_)
SortDesc(s) ==
    IF s = <<>> THEN <<>>
    ELSE InsertDesc(SortDesc(SubSeq(s, 1, Len(s) - 1)), s[Len(s)])

TopN == 5

\* df.nlargest(5, 'amount')
NLargest(df) ==
    LET sorted == SortDesc(df)
    IN  SubSeq(sorted, 1, IF Len(sorted) < TopN THEN Len(sorted) ELSE TopN)

\* [['description', 'amount', 'category', 'date']].to_dict('records'), with
\* expense['date'] = expense['date'].strftime('%Y-%m-%d')
TopExpenses(df) ==
    LET top == NLargest(df)
    IN  [i \in 1..Len(top) |->
            [description |-> top[i].description,
             amount |-> top[i].amount,
             category |-> top[i].category,
             date |-> StrfYmd(top[i].date)]]

\* max(spending_by_category.items(), key=lambda x: x[1])
MostExpensiveCategory(df) == MaxItem(SpendingByCategory(df))

\* max(monthly_trends.items(), key=lambda x: x[1])
HighestSpendingMonth(df) == MaxItem(MonthlyTrends(df))

\* df['category'].mode().iloc[0]
MostCommonCategory(df) == ModeFirst(CategoryOf(df), SortedCategories)

\* df['date'].dt.day_name().mode().iloc[0]
MostCommonDay(df) == ModeFirst(DayOf(df), SortedDayNames)

\* the largest / smallest amount of a non-empty frame
MaxAmount(df) ==
    LET i == CHOOSE a \in 1..Len(df) : \A b \in 1..Len(df) : df[b].amount <= df[a].amount
    IN  df[i].amount

MinAmount(df) ==
    LET i == CHOOSE a \in 1..Len(df) : \A b \in 1..Len(df) : df[a].amount <= df[b].amount
    IN  df[i].amount

\* len(df[df['amount'] < hi]), len(df[(df['amount'] >= lo) & (df['amount'] < hi)])
\* and len(df[df['amount'] >= lo])
CountBelow(df, hi) == Len(SelectSeq(df, LAMBDA r : r.amount < hi))

\* (a variant whose ranges exclude their lower and include their upper bound)
CountBetweenUpper(df, lo, hi) ==
    Len(SelectSeq(df, LAMBDA r : r.amount > lo /\ r.amount <= hi))

CountBetween(df, lo, hi) ==
    Len(SelectSeq(df, LAMBDA r : r.amount >= lo /\ r.amount < hi))
CountAtLeast(df, lo) == Len(SelectSeq(df, LAMBDA r : r.amount >= lo))

\* spending_by_person.get(key, 0)
GetOr0(items, key) ==
    IF \E i \in 1..Len(items) : items[i][1] = key
    THEN items[CHOOSE i \in 1..Len(items) : items[i][1] = key][2]
    ELSE 0

\* part / total * 100, as the exact fraction num / den
Percent(part, total) == [num |-> part * 100, den |-> total]

\* "shared_vs_individual_ratio"; self.shared is "Shared"
SharedVsIndividualRatio(df) ==
    LET by_person == SpendingByPerson(df)
        total == TotalSpending(df)
    IN  [shared |-> Percent(GetOr0(by_person, "Shared"), total),
         individual |-> Percent(total - GetOr0(by_person, "Shared"), total)]

\* a plain number standing where the non-empty snapshot holds a dict
Number(n) == [number |-> n]

\* A float that is a standard deviation: not-a-number, or the real number
\* sqrt(num / den) given by the exact fraction under the root.
NaN == [nan |-> TRUE]
Root(num, den) == [nan |-> FALSE, num |-> num, den |-> den]

\* the squares of a sequence of numbers
Squares(values) == [i \in 1..Len(values) |-> values[i] * values[i]]

\* Series.std(): the sample standard deviation (ddof=1), which is
\* not-a-number for fewer than two values
Std(values) ==
    LET n == Len(values)
    IN  IF n < 2 THEN NaN
        ELSE Root(n * SumSeq(Squares(values)) - SumSeq(values) * SumSeq(values),
                  n * (n - 1))

\* the column df['amount']
AmountOf(df) == [i \in 1..Len(df) |-> df[i].amount]

\* "expense_std_dev"
ExpenseStdDev(df) == Std(AmountOf(df))

\* "expense_distribution"
ExpenseDistribution(df) ==
    [under_50 |-> CountBelow(df, 50),
     from_50_to_100 |-> CountBetween(df, 50, 100),
     from_100_to_200 |-> CountBetween(df, 100, 200),
     from_200_to_500 |-> CountBetween(df, 200, 500),
     over_500 |-> CountAtLeast(df, 500)]

\* "budget_insights"
BudgetInsights(df) ==
    [highest_single_expense |-> MaxAmount(df),
     lowest_single_expense |-> MinAmount(df),
     expense_range |-> MaxAmount(df) - MinAmount(df),
     expense_std_dev |-> ExpenseStdDev(df),
     most_common_category |-> MostCommonCategory(df),
     most_common_day |-> MostCommonDay(df),
     expense_distribution |-> ExpenseDistribution(df)]

\* the snapshot returned for an empty filtered set; current_date is the
\* instant datetime.now() returned
EmptySnapshot(current_date) ==
    [total_spending |-> 0,
     spending_by_person |-> <<>>,
     spending_by_category |-> <<>>,
     monthly_trends |-> <<>>,
     top_expenses |-> <<>>,
     expenses |-> <<>>,
     spending_patterns |->
        [average_monthly_spend |-> 0,
         most_expensive_category |-> <<"", 0>>,
         highest_spending_month |-> <<current_date, 0>>,
         spending_by_day_of_week |-> <<>>,
         spending_by_category_percentage |-> <<>>,
         average_expense_amount |-> 0,
         shared_vs_individual_ratio |-> Number(0),
         spending_velocity |-> 0,
         category_trends |-> <<>>,
         person_spending_ratio |-> <<>>,
         budget_insights |-> <<>>]]

\* the snapshot returned for a non-empty filtered set
Snapshot(f, current_year) ==
    LET df == Frame(f, current_year)
    IN  [total_spending |-> TotalSpending(df),
         spending_by_person |-> SpendingByPerson(df),
         spending_by_category |-> SpendingByCategory(df),
         monthly_trends |-> FormatMonthlyTrends(MonthlyTrends(df)),
         top_expenses |-> TopExpenses(df),
         expenses |-> [i \in 1..Len(f) |-> ToDict(f[i])],
         spending_patterns |->
            [average_monthly_spend |-> AverageMonthlySpend(df),
             most_expensive_category |-> MostExpensiveCategory(df),
             highest_spending_month |-> HighestSpendingMonth(df),
             spending_by_day_of_week |-> SpendingByDayOfWeek(df),
             shared_vs_individual_ratio |-> SharedVsIndividualRatio(df),
             budget_insights |-> BudgetInsights(df)]]

\* (a variant without the guard for the empty filtered set: the empty frame
\* has no 'amount' column and df['amount'] raises)
InsightsUnguarded(f, t) ==
    IF f = <<>> THEN [status |-> "raised", error |-> "KeyError"]
    ELSE IF FrameRaises(f, Clock[t]) THEN [status |-> "raised", error |-> "ValueError"]
    ELSE [status |-> "returned", value |-> Snapshot(f, Clock[t])]

\* the outcome of get_spending_insights on the filtered records f, the clock
\* reading instant t
Insights(f, t) ==
    IF f = <<>> THEN [status |-> "returned", value |-> EmptySnapshot(t)]
    ELSE IF FrameRaises(f, Clock[t]) THEN [status |-> "raised", error |-> "ValueError"]
    ELSE [status |-> "returned", value |-> Snapshot(f, Clock[t])]

----------------------------------------------------------------------------
(* ExpenseVisualizer.filter_insights_by_month *)

\* datetime.strptime(s, '%Y-%m-%d')
StrpYmd(s) == <<s[1], s[2], s[3], 0>>

\* values.count(v)
CountOf(values, v) == Cardinality({i \in 1..Len(values) : values[i] = v})

\* max(set(values), key=values.count): a set is iterated in an order the
\* language does not fix, so any of the most frequent values may come out
MaxOfSetByCount(values) ==
    {v \in Range(values) : \A w \in Range(values) : CountOf(values, w) <= CountOf(values, v)}

\* the expenses of the snapshot dated in the month
MonthExpenses(ins, month, year) ==
    SelectSeq(ins.expenses,
              LAMBDA e : StrpYmd(e.date)[2] = month /\ StrpYmd(e.date)[1] = year)

\* a dict of sums filled in the order the keys are first seen
SumsFirstSeen(rows, keys) ==
    LET ks == FirstSeen(keys)
    IN  [i \in 1..Len(ks) |->
            <<ks[i], SumAmounts(SelectSeq(rows, LAMBDA r : r \in
                {rows[j] : j \in {n \in 1..Len(rows) : keys[n] = ks[i]}}))>>]

\* what filter_insights_by_month returns when there is nothing to report
EmptyMonthInsights ==
    [total_spending |-> 0,
     spending_by_category |-> <<>>,
     spending_by_person |-> <<>>,
     budget_insights |->
        [highest_single_expense |-> 0,
         lowest_single_expense |-> "inf",
         expense_range |-> 0,
         expense_std_dev |-> Root(0, 1),
         expense_distribution |->
            [under_10 |-> 0, from_10_to_50 |-> 0, from_50_to_100 |-> 0,
             from_100_to_200 |-> 0, over_200 |-> 0],
         most_common_category |-> "",
         most_common_day |-> ""]]

\* the if/elif chain filling expense_distribution
MonthDistribution(rows) ==
    [under_10 |-> CountBelow(rows, 10),
     from_10_to_50 |-> CountBetween(rows, 10, 50),
     from_50_to_100 |-> CountBetween(rows, 50, 100),
     from_100_to_200 |-> CountBetween(rows, 100, 200),
     over_200 |-> CountAtLeast(rows, 200)]

\* "expense_std_dev": the default 0.0 unless len(amounts) > 1
MonthStdDev(rows) ==
    IF Len(rows) > 1 THEN Std(AmountOf(rows)) ELSE Root(0, 1)

\* the results filter_insights_by_month may return on the snapshot ins
FilterInsightsByMonth(ins, month, year) ==
    LET rows == MonthExpenses(ins, month, year)
        categories == [i \in 1..Len(rows) |-> rows[i].category]
        people == [i \in 1..Len(rows) |-> rows[i].paid_by]
        days == [i \in 1..Len(rows) |-> DayName(StrpYmd(rows[i].date))]
    IN  IF ins.expenses = <<>> \/ rows = <<>> THEN {EmptyMonthInsights}
        ELSE {[total_spending |-> SumAmounts(rows),
               spending_by_category |-> SumsFirstSeen(rows, categories),
               spending_by_person |-> SumsFirstSeen(rows, people),
               budget_insights |->
                  [highest_single_expense |-> MaxAmount(rows),
                   lowest_single_expense |-> MinAmount(rows),
                   expense_range |-> MaxAmount(rows) - MinAmount(rows),
                   expense_std_dev |-> MonthStdDev(rows),
                   expense_distribution |-> MonthDistribution(rows),
                   most_common_category |-> c,
                   most_common_day |-> d]] :
              c \in MaxOfSetByCount(categories), d \in MaxOfSetByCount(days)}

----------------------------------------------------------------------------
(* ExpenseVisualizer.generate_all_monthly_reports *)

\* date.month / date.year raise AttributeError unless date is a datetime (a
\* date string, the 3-tuple, has no such attribute)
MonthAttrRaises(date) == Len(date) # 4

\* the outcome of generate_all_monthly_reports on the snapshot ins: one report
\* (named here by its (month, year)) per element of unique_months
GenerateAllMonthlyReportsOutcome(ins) ==
    LET dates == [i \in 1..Len(ins.expenses) |-> ins.expenses[i].date]
    IN  IF \E i \in 1..Len(dates) : MonthAttrRaises(dates[i])
        THEN [status |-> "raised", error |-> "AttributeError"]
        ELSE [status |-> "returned",
              paths |-> {<<dates[i][2], dates[i][1]>> : i \in 1..Len(dates)}]

----------------------------------------------------------------------------
(* ExpenseTracker.load_from_sheets / load_expenses *)

\* Category(value): the member with that value
CategoryMember(value) ==
    CHOOSE m \in {"GROCERIES", "UTILITIES", "RENT", "ENTERTAINMENT", "DINING",
                  "TRANSPORT", "SHARED", "SHOPPING", "OTHER"} : CategoryValue(m) = value

\* Category(value) raises ValueError when no member has that value
CategoryRaises(value) ==
    ~\E m \in {"GROCERIES", "UTILITIES", "RENT", "ENTERTAINMENT", "DINING",
                "TRANSPORT", "SHARED", "SHOPPING", "OTHER"} : CategoryValue(m) = value

\* float(text) for the amount texts of the model
Float(text) ==
    CASE text = "5" -> 5
      [] text = "10" -> 10
      [] text = "50" -> 50
      [] text = "100" -> 100
      [] text = "200" -> 200
      [] text = "500" -> 500

\* float(text) raises ValueError for a text that is not a number
FloatRaises(text) == text \notin {"5", "10", "50", "100", "200", "500"}

\* parse_date: a "YYYY-MM-DD" cell gives that day at midnight; a cell no
\* format parses (any other tuple here) gives None
ParseDate(cell) ==
    IF Len(cell) = 3 THEN <<cell[1], cell[2], cell[3], 0>> ELSE None

\* the Expense built from a row of the sheet
RowExpense(row) ==
    [description |-> row.description,
     amount |-> Float(row.amount),
     paid_by |-> row.paid_by,
     category |-> CategoryMember(row.category),
     date |-> ParseDate(row.date)]

\* self.expenses after the loop has appended the rows
LoadedFromSheet(rows) == [i \in 1..Len(rows) |-> RowExpense(rows[i])]

\* df.dropna(subset=['date']): the rows whose date was parsed
DropNa(rows) == SelectSeq(rows, LAMBDA r : ParseDate(r.date) # None)

\* building the Expense of the row raises
RowRaises(row) == FloatRaises(row.amount) \/ CategoryRaises(row.category)

\* the number of rows the loop appends before a row raises (all of them when
\* none does)
AppendedRows(rows) ==
    IF \E i \in 1..Len(rows) : RowRaises(rows[i])
    THEN (CHOOSE i \in 1..Len(rows) :
              RowRaises(rows[i]) /\ \A j \in 1..(i - 1) : ~RowRaises(rows[j])) - 1
    ELSE Len(rows)

\* no cache file
NoFile == [exists |-> FALSE]

\* save_expenses: the file written for the records
SaveExpenses(exps) ==
    [exists |-> TRUE,
     person1 |-> "Kylie", person2 |-> "Jeff", shared |-> "Shared",
     expenses |-> [i \in 1..Len(exps) |-> ToDict(exps[i])]]

\* load_from_sheets: the tracker's records and the cache file after the call,
\* and whether the call raised.  Whatever goes wrong inside is caught and
\* printed: an unreadable sheet before anything is assigned, a row that
\* raises after self.expenses was cleared and the rows before it appended.
LoadFromSheetsOutcome(is_reachable, rows, old_expenses, old_cache) ==
    IF ~is_reachable
    THEN [expenses |-> old_expenses, cache |-> old_cache, raised |-> FALSE]
    ELSE LET df == DropNa(rows)
             n == AppendedRows(df)
         IN  IF n < Len(df)
             THEN [expenses |-> LoadedFromSheet(SubSeq(df, 1, n)),
                   cache |-> old_cache, raised |-> FALSE]
             ELSE [expenses |-> LoadedFromSheet(df),
                   cache |-> SaveExpenses(LoadedFromSheet(df)), raised |-> FALSE]

\* (a variant keeping the time of day of an ISO timestamp)
ParseStoredDateKeepTime(date_str) ==
    IF Len(date_str) = 3 THEN <<date_str[1], date_str[2], date_str[3], 0>>
    ELSE date_str

\* Expense.from_dict, the date: strptime(date_str, "%Y-%m-%d"), or for an ISO
\* timestamp (here <<year, month, day, time-of-day>>) fromisoformat(date_str)
\* with the time of day replaced by midnight
ParseStoredDate(date_str) ==
    IF Len(date_str) = 3 THEN <<date_str[1], date_str[2], date_str[3], 0>>
    ELSE <<date_str[1], date_str[2], date_str[3], 0>>

\* Expense.from_dict
FromDict(data) ==
    [description |-> data.description,
     amount |-> data.amount,
     paid_by |-> data.paid_by,
     category |-> CategoryMember(data.category),
     date |-> ParseStoredDate(data.date)]

\* [Expense.from_dict(exp) for exp in data["expenses"]]
ReadCacheFile(file) == [i \in 1..Len(file.expenses) |-> FromDict(file.expenses[i])]

\* load_expenses: the cache file is read only when load_from_sheets raises
LoadExpensesOutcome(is_reachable, rows, old_expenses, old_cache) ==
    LET r == LoadFromSheetsOutcome(is_reachable, rows, old_expenses, old_cache)
    IN  IF r.raised
        THEN [expenses |-> IF old_cache.exists THEN ReadCacheFile(old_cache) ELSE <<>>,
              cache |-> old_cache]
        ELSE [expenses |-> r.expenses, cache |-> r.cache]

----------------------------------------------------------------------------
(* The sheets the model starts from. *)

Cells == [amount : Amounts, paid_by : People,
          category : {CategoryValue(m) : m \in Members},
          date : {StrfYmd(d) : d \in Dates}]

\* a sheet whose i-th row is described as i
SheetOf(f) ==
    [i \in DOMAIN f |->
        [description |-> i, amount |-> f[i].amount, paid_by |-> f[i].paid_by,
         category |-> f[i].category, date |-> f[i].date]]

\* the sheets of at most n rows drawn from cells
SheetsOver(cells, n) == UNION {{SheetOf(f) : f \in [1..k -> cells]} : k \in 0..n}

\* rows differing in amount and date
DateCells == {c \in Cells : c.paid_by = "Kylie" /\ c.category = "Rent"}

\* rows differing in amount, payer and category
GroupCells == {c \in Cells : c.date = <<2024, 1, 5>>}

\* rows differing in amount only
TopCells == {c \in Cells : c.paid_by = "Kylie" /\ c.category = "Rent"
                           /\ c.date = <<2024, 1, 5>>}

\* rows differing in amount only, the amounts below, on and above the bucket
\* boundaries
BucketCells ==
    [amount : {"5", "10", "50", "100", "200", "500"}, paid_by : {"Kylie"},
     category : {"Rent"}, date : {<<2024, 1, 5>>}]

\* rows that load, and rows with an unknown category, an amount that is not
\* a number, a date no format parses
LoadCells ==
    {[amount |-> "50", paid_by |-> "Kylie", category |-> "Rent", date |-> <<2024, 1, 5>>],
     [amount |-> "100", paid_by |-> "Shared", category |-> "Dining", date |-> <<2024, 3, 10>>],
     [amount |-> "50", paid_by |-> "Kylie", category |-> "Food", date |-> <<2024, 1, 5>>],
     [amount |-> "abc", paid_by |-> "Kylie", category |-> "Rent", date |-> <<2024, 1, 5>>],
     [amount |-> "50", paid_by |-> "Kylie", category |-> "Rent", date |-> <<0>>]}

\* the sheets of the loading specification
LoadSheets == SheetsOver(LoadCells, MaxLoadLen)

\* the cache files a run may find: none, one written by save_expenses, one of
\* an older format whose date is a full ISO timestamp
CacheFiles ==
    {NoFile,
     SaveExpenses(<<[description |-> 7, amount |-> 100, paid_by |-> "Kylie",
                     category |-> "RENT", date |-> <<2024, 2, 29, 0>>]>>),
     [exists |-> TRUE, person1 |-> "Kylie", person2 |-> "Jeff", shared |-> "Shared",
      expenses |-> <<[description |-> 8, amount |-> 50, paid_by |-> "Shared",
                      category |-> "Dining", date |-> <<2024, 3, 10, 37>>]>>]}

\* the (month, year) pairs asked of generate_monthly_report
ReportMonths == {<<1, 2024>>, <<3, 2024>>}

----------------------------------------------------------------------------
(* The state machine. *)

InitWith(sheets) ==
    /\ sheet \in sheets
    /\ expenses = <<>>
    /\ phase = "new"
    /\ now = 1
    /\ call = NoCall
    /\ filtered = <<>>
    /\ insights = NoResult
    /\ month_insights = NoResult
    /\ reports = NoResult
    /\ reachable = TRUE
    /\ cache = NoFile
    /\ restored = NoResult

Init == InitWith(SheetsOver(DateCells, MaxLen))

InitGroups == InitWith(SheetsOver(GroupCells, MaxGroupLen))

InitTop == InitWith(SheetsOver(TopCells, MaxTopLen))

InitBuckets == InitWith(SheetsOver(BucketCells, MaxBucketLen))

\* ExpenseTracker.__init__: self.load_expenses()
LoadExpenses ==
    /\ phase = "new"
    /\ LET r == LoadExpensesOutcome(reachable, sheet, expenses, cache)
       IN  expenses' = r.expenses /\ cache' = r.cache
    /\ phase' = "ready"
    /\ restored' = NoResult
    /\ UNCHANGED <<sheet, now, call, filtered, insights, month_insights, reports,
                   reachable>>

\* main(): tracker.load_from_sheets()
LoadFromSheets ==
    /\ phase = "ready"
    /\ LET r == LoadFromSheetsOutcome(reachable, sheet, expenses, cache)
       IN  expenses' = r.expenses /\ cache' = r.cache
    /\ restored' = NoResult
    /\ UNCHANGED <<sheet, phase, now, call, filtered, insights, month_insights,
                   reports, reachable>>

\* tracker.get_spending_insights(start_date, end_date)
GetSpendingInsights(start_date, end_date) ==
    /\ phase = "ready"
    /\ call' = [made |-> TRUE, start_date |-> start_date, end_date |-> end_date,
                 current |-> now]
    /\ filtered' = FilterExpenses(expenses, start_date, end_date)
    /\ insights' = Insights(filtered', now)
    /\ month_insights' = NoResult
    /\ reports' = NoResult
    /\ restored' = NoResult
    /\ UNCHANGED <<sheet, expenses, phase, now, reachable, cache>>

\* main.generate_monthly_report: ExpenseVisualizer(tracker.get_spending_insights())
\* and, through generate_monthly_report, filter_insights_by_month(month, year)
GenerateMonthlyReport(month, year) ==
    /\ phase = "ready"
    /\ call' = [made |-> TRUE, start_date |-> None, end_date |-> None,
                 current |-> now]
    /\ filtered' = FilterExpenses(expenses, None, None)
    /\ insights' = Insights(filtered', now)
    /\ IF insights'.status = "returned"
       THEN \E m \in FilterInsightsByMonth(insights'.value, month, year) :
                month_insights' = [status |-> "returned", month |-> month,
                                   year |-> year, value |-> m]
       ELSE month_insights' = NoResult
    /\ reports' = NoResult
    /\ restored' = NoResult
    /\ UNCHANGED <<sheet, expenses, phase, now, reachable, cache>>

\* main.generate_all_monthly_reports:
\* ExpenseVisualizer(tracker.get_spending_insights()).generate_all_monthly_reports()
GenerateAllMonthlyReports ==
    /\ phase = "ready"
    /\ call' = [made |-> TRUE, start_date |-> None, end_date |-> None,
                 current |-> now]
    /\ filtered' = FilterExpenses(expenses, None, None)
    /\ insights' = Insights(filtered', now)
    /\ month_insights' = NoResult
    /\ reports' = IF insights'.status = "returned"
                  THEN GenerateAllMonthlyReportsOutcome(insights'.value)
                  ELSE NoResult
    /\ restored' = NoResult
    /\ UNCHANGED <<sheet, expenses, phase, now, reachable, cache>>

\* time passes
Tick ==
    /\ now < Len(Clock)
    /\ now' = now + 1
    /\ UNCHANGED <<sheet, expenses, phase, call, filtered, insights, month_insights,
                   reports, reachable, cache, restored>>

Next ==
    \/ LoadExpenses
    \/ LoadFromSheets
    \/ \E s \in Starts, e \in Ends : GetSpendingInsights(s, e)
    \/ \E my \in ReportMonths : GenerateMonthlyReport(my[1], my[2])
    \/ GenerateAllMonthlyReports
    \/ Tick

\* the sheet is edited
SheetEdited ==
    /\ \E rows \in LoadSheets : rows # sheet /\ sheet' = rows
    /\ UNCHANGED <<expenses, phase, now, call, filtered, insights, month_insights,
                   reports, reachable, cache, restored>>

\* the connection to the sheet is lost or comes back
ConnectionChanges ==
    /\ reachable' = ~reachable
    /\ UNCHANGED <<sheet, expenses, phase, now, call, filtered, insights,
                   month_insights, reports, cache, restored>>

\* the cache file is read back as load_expenses reads it
ReadCache ==
    /\ cache.exists
    /\ restored' = [status |-> "returned", value |-> ReadCacheFile(cache)]
    /\ UNCHANGED <<sheet, expenses, phase, now, call, filtered, insights,
                   month_insights, reports, reachable, cache>>

\* loading, with a sheet that changes and may be unreachable
InitLoad ==
    /\ sheet \in LoadSheets
    /\ expenses = <<>>
    /\ phase = "new"
    /\ now = 1
    /\ call = NoCall
    /\ filtered = <<>>
    /\ insights = NoResult
    /\ month_insights = NoResult
    /\ reports = NoResult
    /\ reachable \in BOOLEAN
    /\ cache \in CacheFiles
    /\ restored = NoResult

NextLoad ==
    \/ LoadExpenses
    \/ LoadFromSheets
    \/ SheetEdited
    \/ ConnectionChanges
    \/ ReadCache

Spec == Init /\ [][Next]_vars

SpecLoad == InitLoad /\ [][NextLoad]_vars

SpecBuckets == InitBuckets /\ [][Next]_vars

SpecGroups == InitGroups /\ [][Next]_vars

SpecTop == InitTop /\ [][Next]_vars

----------------------------------------------------------------------------
(* What the claims speak of. *)

\* the last call returned a snapshot
Returned == call.made /\ insights.status = "returned"

\* ... for a non-empty filtered set
ReturnedSome == Returned /\ filtered # <<>>

\* position of a record in the tracker's list (descriptions are the row numbers)
Pos(description) == CHOOSE k \in 1..Len(expenses) : expenses[k].description = description

\* the sum of the amounts of the records of s satisfying Test
SumWhere(s, Test(_)) == SumAmounts(SelectSeq(s, Test))

----------------------------------------------------------------------------
\* C1: for a non-empty filtered set, the snapshot's total_spending equals the
\* sum of the values of spending_by_category and the sum of the values of
\* spending_by_person.
C1_SumInvariant ==
    ReturnedSome =>
        /\ insights.value.total_spending = SumValues(insights.value.spending_by_category)
        /\ insights.value.total_spending = SumValues(insights.value.spending_by_person)

\* a snapshot over two payers and two categories
C1_Witness ==
    /\ ReturnedSome
    /\ Len(insights.value.spending_by_category) = 2
    /\ Len(insights.value.spending_by_person) = 2
    /\ insights.value.total_spending = 150

----------------------------------------------------------------------------
\* the (year, month) a record is dated in
YearMonth(e) == <<e.date[1], e.date[2]>>

\* the monthly trend of the returned snapshot
Trend == insights.value.monthly_trends

\* C2: the monthly trend is keyed by each record's own year and month: for
\* every (year, month) some filtered record is dated in, the entry of that
\* year-month is the sum of the amounts of the filtered records dated in it,
\* whatever the current year is at the call.
C2_TrendKeyedByRecordMonth ==
    ReturnedSome =>
        \A i \in 1..Len(filtered) :
            /\ YearMonth(filtered[i]) \in Keys(Trend)
            /\ Lookup(Trend, YearMonth(filtered[i])) =
                   SumWhere(filtered, LAMBDA e : YearMonth(e) = YearMonth(filtered[i]))

\* C3: every month with a filtered record is a key of the monthly trend and
\* no month without one is: a month without records lying between two months
\* with records is omitted.  Stated for the calls made in the year the
\* records are dated in, where moving the dates to the current year changes
\* nothing.
C3_TrendOmitsEmptyMonths ==
    (ReturnedSome /\ \A i \in 1..Len(filtered) : filtered[i].date[1] = Clock[call.current]) =>
        Keys(Trend) = {YearMonth(filtered[i]) : i \in 1..Len(filtered)}

----------------------------------------------------------------------------
\* C7: get_spending_insights never raises for valid records (amount > 0, a
\* category of the enumeration, a valid calendar date, 29 February of a leap
\* year included), whatever the window and the current year.
C7_NeverRaises == call.made => insights.status = "returned"

\* C8: two calls of get_spending_insights on the same records with the same
\* start/end arguments return equal results, whatever the time of each call.
C8_Idempotent ==
    [][(/\ call.made
        /\ call'.made
        /\ call'.start_date = call.start_date
        /\ call'.end_date = call.end_date
        /\ expenses' = expenses) => insights' = insights]_vars

----------------------------------------------------------------------------
\* C9: when the filtered set is empty (no records, or none inside the
\* window), get_spending_insights returns, without raising, a snapshot with
\* total_spending 0, empty spending_by_person, spending_by_category and
\* monthly trend, and empty top_expenses.
C9_EmptySnapshot ==
    (call.made /\ filtered = <<>>) =>
        /\ insights.status = "returned"
        /\ insights.value.total_spending = 0
        /\ insights.value.spending_by_person = <<>>
        /\ insights.value.spending_by_category = <<>>
        /\ insights.value.monthly_trends = <<>>
        /\ insights.value.top_expenses = <<>>

\* a call on a tracker holding records none of which is inside the window
C9_Witness ==
    /\ call.made
    /\ expenses # <<>>
    /\ filtered = <<>>
    /\ call.start_date # None
    /\ insights.status = "returned"

----------------------------------------------------------------------------
\* the record is inside the window of the last call
InWindow(e) ==
    /\ call.start_date # None => DtLE(call.start_date, e.date)
    /\ call.end_date # None => DtLE(e.date, call.end_date)

\* s holds records of the tracker only, in the order of the tracker's list
InTrackerOrder(s) ==
    /\ \A i \in 1..Len(s) : s[i] \in Range(expenses)
    /\ \A i, j \in 1..Len(s) : i < j => Pos(s[i].description) < Pos(s[j].description)

\* C10: _filter_expenses(start, end) returns exactly the tracker's records r
\* with r.date >= start (when given) and r.date <= end (when given), bounds
\* inclusive, in the order of the tracker's list; without bounds it returns
\* all records; and the call leaves the tracker's list as it was.
C10_Filter ==
    /\ [](call.made =>
            /\ InTrackerOrder(filtered)
            /\ \A i \in 1..Len(filtered) : InWindow(filtered[i])
            /\ \A k \in 1..Len(expenses) :
                   InWindow(expenses[k]) => expenses[k] \in Range(filtered)
            /\ (call.start_date = None /\ call.end_date = None) => filtered = expenses)
    /\ [][call' # call => expenses' = expenses]_vars

\* a call with both bounds that keeps a record dated on the bounds and drops
\* an earlier and a later one
C10_Witness ==
    /\ call.made
    /\ call.start_date # None
    /\ call.end_date # None
    /\ Len(expenses) = 3
    /\ Len(filtered) = 1
    /\ filtered[1].date = call.start_date
    /\ filtered[1].date = call.end_date
    /\ filtered[1] = expenses[2]

----------------------------------------------------------------------------
\* top_expenses of the returned snapshot
Top == insights.value.top_expenses

\* the descriptions of the records in top_expenses
TopDescriptions == {Top[i].description : i \in 1..Len(Top)}

\* record a ranks before record b: a larger amount, or the same amount and an
\* earlier place in the tracker's list
RanksBefore(a, b) ==
    \/ a.amount > b.amount
    \/ a.amount = b.amount /\ Pos(a.description) < Pos(b.description)

\* C4: top_expenses has min(5, number of filtered records) entries, they are
\* the records with the largest amounts, in descending order of amount, and
\* of records with equal amounts the one earlier in the tracker's list ranks
\* earlier (and is the one kept when the tie straddles the fifth position).
C4_TopExpenses ==
    Returned =>
        /\ Len(Top) = IF Len(filtered) < 5 THEN Len(filtered) ELSE 5
        /\ \A i \in 1..Len(Top) :
               \E k \in 1..Len(filtered) :
                   /\ filtered[k].description = Top[i].description
                   /\ filtered[k].amount = Top[i].amount
        /\ \A i, j \in 1..Len(Top) : i < j => RanksBefore(Top[i], Top[j])
        /\ \A k \in 1..Len(filtered) :
               filtered[k].description \notin TopDescriptions =>
                   \A i \in 1..Len(Top) : RanksBefore(Top[i], filtered[k])

\* six records, the fifth and the sixth largest of equal amount, and a
\* record of a larger amount behind records of a smaller one
C4_Witness ==
    /\ Returned
    /\ Len(filtered) = 6
    /\ Len(Top) = 5
    /\ \E k \in 1..6 : /\ filtered[k].description \notin TopDescriptions
                       /\ filtered[k].amount = Top[5].amount
    /\ Top[1].amount > Top[5].amount
    /\ filtered[1].amount < filtered[6].amount

----------------------------------------------------------------------------
\* the categories of the filtered records, as the snapshot names them
FilteredCategories == [i \in 1..Len(filtered) |-> CategoryValue(filtered[i].category)]

\* the index of the first occurrence of v in the sequence
FirstIndex(values, v) == CHOOSE i \in 1..Len(values) :
    values[i] = v /\ \A j \in 1..(i - 1) : values[j] # v

\* place of a category value in the lexicographic order of the values
LexRank(c) == CHOOSE i \in 1..Len(SortedCategories) : SortedCategories[i] = c

ByCategory == insights.value.spending_by_category

\* the categories holding the largest summed amount
TiedCategories ==
    {c \in Keys(ByCategory) :
        \A d \in Keys(ByCategory) : Lookup(ByCategory, d) <= Lookup(ByCategory, c)}

MostExpensive == insights.value.spending_patterns.most_expensive_category

\* C5 as claimed: when categories tie for the largest summed amount,
\* most_expensive_category is the tied category whose first record comes
\* earliest in the input order.
C5_FirstSeenWins ==
    (ReturnedSome /\ Cardinality(TiedCategories) >= 2) =>
        /\ MostExpensive[1] \in TiedCategories
        /\ \A c \in TiedCategories :
               FirstIndex(FilteredCategories, MostExpensive[1])
                   <= FirstIndex(FilteredCategories, c)

\* C5, amended: most_expensive_category is a category holding the largest
\* summed amount, with that amount; when several tie, it is the tied
\* category whose name comes first in lexicographic order; and a repeated
\* call on the same records with the same arguments names the same category.
C5_LexFirstWins ==
    /\ [](ReturnedSome =>
            /\ MostExpensive[1] \in TiedCategories
            /\ MostExpensive[2] = Lookup(ByCategory, MostExpensive[1])
            /\ \A c \in TiedCategories : LexRank(MostExpensive[1]) <= LexRank(c))
    /\ [][(/\ ReturnedSome
           /\ ReturnedSome'
           /\ call'.start_date = call.start_date
           /\ call'.end_date = call.end_date
           /\ expenses' = expenses) => MostExpensive' = MostExpensive]_vars

\* two categories tie and the one seen first is not the one whose name
\* comes first
C5_Witness ==
    /\ ReturnedSome
    /\ Cardinality(TiedCategories) = 2
    /\ FilteredCategories[1] = "Rent"
    /\ MostExpensive[1] = "Dining"

----------------------------------------------------------------------------
\* the most frequent value of a non-empty sequence, the one seen first among
\* the values of the highest count
FirstSeenMode(values) ==
    CHOOSE v \in Range(values) :
        /\ \A w \in Range(values) : CountOf(values, w) <= CountOf(values, v)
        /\ \A w \in Range(values) :
               CountOf(values, w) = CountOf(values, v)
                   => FirstIndex(values, v) <= FirstIndex(values, w)

\* the weekday names of the filtered records
FilteredDays == [i \in 1..Len(filtered) |-> DayName(filtered[i].date)]

\* the filtered records dated in the month the last report was asked for
ReportedRecords ==
    SelectSeq(filtered, LAMBDA e : e.date[2] = month_insights.month
                                   /\ e.date[1] = month_insights.year)

\* C6: most_common_category and most_common_day are the mode of the filtered
\* records' categories and weekday names, the value seen first in input
\* order when several tie for the highest count, in get_spending_insights
\* and in filter_insights_by_month alike.
C6_ModeFirstSeen ==
    /\ ReturnedSome =>
        /\ insights.value.spending_patterns.budget_insights.most_common_category
               = FirstSeenMode(FilteredCategories)
        /\ insights.value.spending_patterns.budget_insights.most_common_day
               = FirstSeenMode(FilteredDays)
    /\ (month_insights.status = "returned" /\ ReportedRecords # <<>>) =>
        /\ month_insights.value.budget_insights.most_common_category
               = FirstSeenMode([i \in 1..Len(ReportedRecords) |->
                                   CategoryValue(ReportedRecords[i].category)])
        /\ month_insights.value.budget_insights.most_common_day
               = FirstSeenMode([i \in 1..Len(ReportedRecords) |->
                                   DayName(ReportedRecords[i].date)])

----------------------------------------------------------------------------
\* C11: for every non-empty filtered set, average_monthly_spend is the mean of
\* the values of the snapshot's monthly_trends: average_monthly_spend times the
\* number of keys of monthly_trends equals the sum of the monthly_trends values
\* (with average_monthly_spend the fraction num / den, that is
\* num * keys = den * sum).
C11_AverageIsMeanOfTrend ==
    ReturnedSome =>
        LET avg == insights.value.spending_patterns.average_monthly_spend
        IN  avg.num * Len(Trend) = avg.den * SumValues(Trend)

----------------------------------------------------------------------------
\* a standard deviation that is the number 0
IsZero(x) == ~x.nan /\ x.num = 0

\* the records filter_insights_by_month aggregated in its last call
ReportedMonthRecords ==
    MonthExpenses(insights.value, month_insights.month, month_insights.year)

\* C12: for a filtered set of exactly one record, expense_std_dev is the
\* number 0, never not-a-number, in the snapshot of get_spending_insights as
\* in the result of filter_insights_by_month.
C12_StdDevOfOneRecord ==
    /\ (ReturnedSome /\ Len(filtered) = 1) =>
            IsZero(insights.value.spending_patterns.budget_insights.expense_std_dev)
    /\ (month_insights.status = "returned" /\ Len(ReportedMonthRecords) = 1) =>
            IsZero(month_insights.value.budget_insights.expense_std_dev)

----------------------------------------------------------------------------
\* shared_vs_individual_ratio of the returned snapshot
Ratio == insights.value.spending_patterns.shared_vs_individual_ratio

\* what the filtered records paid by the "Shared" party amount to
SharedSum == SumAmounts(SelectSeq(filtered, LAMBDA e : e.paid_by = "Shared"))

\* the fraction f is the percentage part / total
IsPercentOf(f, part, total) == f.num * total = 100 * part * f.den

\* C13: shared_vs_individual_ratio always has a 'shared' and an 'individual'
\* component; when total_spending > 0 they are the percentages of
\* total_spending paid by "Shared" and by all the others, summing to 100, and
\* for an empty filtered set both components are 0.
C13_SharedVsIndividual ==
    Returned =>
        /\ DOMAIN Ratio = {"shared", "individual"}
        /\ (filtered # <<>> /\ insights.value.total_spending > 0) =>
              /\ IsPercentOf(Ratio.shared, SharedSum, insights.value.total_spending)
              /\ IsPercentOf(Ratio.individual,
                             insights.value.total_spending - SharedSum,
                             insights.value.total_spending)
              /\ Ratio.shared.num * Ratio.individual.den
                    + Ratio.individual.num * Ratio.shared.den
                 = 100 * Ratio.shared.den * Ratio.individual.den
        /\ filtered = <<>> => Ratio.shared = 0 /\ Ratio.individual = 0

----------------------------------------------------------------------------
\* the (month, year) pairs occurring among the snapshot's 'expenses' entries
SnapshotMonths ==
    {<<insights.value.expenses[i].date[2], insights.value.expenses[i].date[1]>> :
        i \in 1..Len(insights.value.expenses)}

\* C17: generate_all_monthly_reports, given the snapshot get_spending_insights
\* returned for a non-empty record set, completes without error and produces
\* exactly one report per distinct (month, year) occurring among the
\* snapshot's 'expenses' entries.
C17_AllMonthlyReports ==
    (reports # NoResult /\ ReturnedSome) =>
        /\ reports.status = "returned"
        /\ reports.paths = SnapshotMonths

----------------------------------------------------------------------------
\* C14: load_expenses uses the cached JSON when the Google Sheet is
\* unavailable: if the sheet cannot be read and a cache file exists, then
\* after load_expenses (the constructor) the tracker's records are the
\* records stored in the cache.
C14_CacheWhenSheetUnavailable ==
    [][(LoadExpenses /\ ~reachable /\ cache.exists) =>
           expenses' = ReadCacheFile(cache)]_vars

----------------------------------------------------------------------------
\* the load_from_sheets call about to be made fails: the sheet cannot be
\* read, or building the Expense of some row raises
LoadFails ==
    \/ ~reachable
    \/ \E i \in 1..Len(DropNa(sheet)) : RowRaises(DropNa(sheet)[i])

\* C18: a load_from_sheets call that fails is all-or-nothing: after the call
\* the tracker's record list equals the list before the call (never an empty
\* or partial prefix of the sheet's rows) and the cache file is unchanged.
C18_FailedLoadChangesNothing ==
    [][((LoadFromSheets \/ LoadExpenses) /\ LoadFails) =>
           (expenses' = expenses /\ cache' = cache)]_vars

----------------------------------------------------------------------------
\* the calendar date of a stored date string, at midnight
MidnightOf(date_str) == <<date_str[1], date_str[2], date_str[3], 0>>

\* C16: serialization round-trips: for every record e of the tracker (its
\* date carries no time of day) from_dict(to_dict(e)) = e, so reading back
\* the file save_expenses wrote restores the same list in the same order;
\* and from_dict turns a stored date, be it YYYY-MM-DD or a full ISO
\* timestamp, into the same calendar date at midnight.
C16_RoundTrip ==
    /\ \A i \in 1..Len(expenses) :
           expenses[i].date[4] = 0 => FromDict(ToDict(expenses[i])) = expenses[i]
    /\ (restored.status = "returned" /\ cache = SaveExpenses(expenses)) =>
           restored.value = expenses
    /\ restored.status = "returned" =>
           /\ Len(restored.value) = Len(cache.expenses)
           /\ \A i \in 1..Len(restored.value) :
                  restored.value[i].date = MidnightOf(cache.expenses[i].date)

\* two different records were saved and read back
C16_Witness ==
    /\ restored.status = "returned"
    /\ cache = SaveExpenses(expenses)
    /\ Len(expenses) = 2
    /\ expenses[1].category # expenses[2].category
    /\ expenses[1].date # expenses[2].date

----------------------------------------------------------------------------
\* how many records of s have an amount in [lo, hi), below hi, at least lo
NumIn(s, lo, hi) ==
    Cardinality({i \in 1..Len(s) : lo <= s[i].amount /\ s[i].amount < hi})

NumBelow(s, hi) == Cardinality({i \in 1..Len(s) : s[i].amount < hi})

NumAtLeast(s, lo) == Cardinality({i \in 1..Len(s) : lo <= s[i].amount})

\* expense_distribution of the snapshot and of the month's result
Distribution == insights.value.spending_patterns.budget_insights.expense_distribution

ReportedDistribution == month_insights.value.budget_insights.expense_distribution

\* C15: expense_distribution partitions the records: the bucket counts sum
\* to the number of records and each bucket counts the records whose amount
\* is in its half-open range [low, high), the last bucket being open-ended,
\* for the boundaries 50/100/200/500 of get_spending_insights and
\* 10/50/100/200 of filter_insights_by_month.
C15_DistributionPartitions ==
    /\ ReturnedSome =>
          /\ Distribution.under_50 + Distribution.from_50_to_100
                + Distribution.from_100_to_200 + Distribution.from_200_to_500
                + Distribution.over_500 = Len(filtered)
          /\ Distribution.under_50 = NumBelow(filtered, 50)
          /\ Distribution.from_50_to_100 = NumIn(filtered, 50, 100)
          /\ Distribution.from_100_to_200 = NumIn(filtered, 100, 200)
          /\ Distribution.from_200_to_500 = NumIn(filtered, 200, 500)
          /\ Distribution.over_500 = NumAtLeast(filtered, 500)
    /\ (month_insights.status = "returned" /\ ReportedMonthRecords # <<>>) =>
          /\ ReportedDistribution.under_10 + ReportedDistribution.from_10_to_50
                + ReportedDistribution.from_50_to_100
                + ReportedDistribution.from_100_to_200
                + ReportedDistribution.over_200 = Len(ReportedMonthRecords)
          /\ ReportedDistribution.under_10 = NumBelow(ReportedMonthRecords, 10)
          /\ ReportedDistribution.from_10_to_50 = NumIn(ReportedMonthRecords, 10, 50)
          /\ ReportedDistribution.from_50_to_100 = NumIn(ReportedMonthRecords, 50, 100)
          /\ ReportedDistribution.from_100_to_200 = NumIn(ReportedMonthRecords, 100, 200)
          /\ ReportedDistribution.over_200 = NumAtLeast(ReportedMonthRecords, 200)

\* a report on records of 10 and 200: both amounts are boundaries of the
\* month's buckets, 200 is one of the snapshot's
C15_Witness ==
    /\ ReturnedSome
    /\ month_insights.status = "returned"
    /\ Len(ReportedMonthRecords) = 2
    /\ {filtered[i].amount : i \in 1..Len(filtered)} = {10, 200}
    /\ Distribution.from_200_to_500 = 1
    /\ ReportedDistribution.from_10_to_50 = 1
    /\ ReportedDistribution.over_200 = 1

====
